---- MODULE Spec2Model ----
(***************************************************************************)
(* Model of the assistant bot of src/main.py: the field validators, Record *)
(* and AddressBook, the pickle persistence, the command handlers with the  *)
(* input_error decorator, and the command loop of main().                  *)
(*                                                                         *)
(* A Python str is a sequence of one-character strings.  A printed or      *)
(* returned text is a sequence of fragments (a fixed message is a single   *)
(* fragment, a phone or a name contributes its characters).                *)
(***************************************************************************)
EXTENDS Integers, Sequences, FiniteSets, TLC

\* Largest phone list the model lets a Record grow to.
MaxPhones == 2

----------------------------------------------------------------------------
(* Strings used as inputs.                                                 *)

Al == <<"A", "l">>
Bo == <<"B", "o">>
Empty == <<>>
P1 == <<"1", "2", "3", "4", "5", "6", "7", "8", "9", "0">>
P2 == <<"0", "9", "8", "7", "6", "5", "4", "3", "2", "1">>
\* ten ARABIC-INDIC DIGIT THREE characters: str.isdigit() is true of them
PArabic == <<"U+0663", "U+0663", "U+0663", "U+0663", "U+0663",
             "U+0663", "U+0663", "U+0663", "U+0663", "U+0663">>
PShort == <<"1", "2", "3">>
PAlpha == <<"1", "2", "3", "4", "5", "6", "7", "8", "a", "b">>
D2024 == <<"2", "9", ".", "0", "2", ".", "2", "0", "2", "4">>
D2023 == <<"2", "9", ".", "0", "2", ".", "2", "0", "2", "3">>
D2000 == <<"1", ".", "1", ".", "2", "0", "0", "0">>
DBad == <<"1", "5", "-", "0", "6">>

AsciiDigits == <<"0", "1", "2", "3", "4", "5", "6", "7", "8", "9">>

\* value of an ASCII digit character, -1 for any other character
DigitVal(c) ==
  IF \E i \in 1..Len(AsciiDigits) : AsciiDigits[i] = c
  THEN (CHOOSE i \in 1..Len(AsciiDigits) : AsciiDigits[i] = c) - 1
  ELSE -1

\* str.isdigit() on one character
IsDigitChar(c) == DigitVal(c) >= 0 \/ c = "U+0663"

\* str.isdigit(): non-empty and every character a digit
isdigit(s) == Len(s) > 0 /\ \A i \in 1..Len(s) : IsDigitChar(s[i])

\* a fixed message as a text
Msg(m) == <<m>>

----------------------------------------------------------------------------
(* Exceptions: an outcome of a call is the book it leaves, the value it    *)
(* returns and the exception it raises ("" when it returns normally).      *)

NoExc == ""

Ret(b, text) == [book |-> b, ret |-> text, exc |-> NoExc]
Raise(b, kind, text) == [book |-> b, ret |-> text, exc |-> kind]

----------------------------------------------------------------------------
(* Field validators.                                                       *)

\* Name.__init__: raises ValueError on an empty value
NameOk(value) == Len(value) > 0
NameError == Msg("Name cannot be empty.")

\* Phone.__init__ without the isdigit test
PhoneOkLengthOnly(value) == Len(value) = 10

\* Phone.__init__: raises ValueError unless isdigit and length 10
PhoneOk(value) == ~(~isdigit(value) \/ Len(value) # 10)
PhoneError == Msg("Phone number must consist of exactly 10 digits.")

----------------------------------------------------------------------------
(* Dates.                                                                  *)

NoDate == [y |-> 0, m |-> 0, d |-> 0]
Date(y, m, d) == [y |-> y, m |-> m, d |-> d]

IsLeap(y) == (y % 4 = 0) /\ ((y % 100 # 0) \/ (y % 400 = 0))

DaysInMonth(y, m) ==
  IF m = 2 THEN (IF IsLeap(y) THEN 29 ELSE 28)
  ELSE IF m \in {4, 6, 9, 11} THEN 30 ELSE 31

\* datetime.date(y, m, d) accepts the triple
ValidDate(y, m, d) ==
  /\ y >= 1 /\ y <= 9999
  /\ m >= 1 /\ m <= 12
  /\ d >= 1 /\ d <= DaysInMonth(y, m)

RECURSIVE DaysBeforeMonth(_, _)
DaysBeforeMonth(y, m) ==
  IF m <= 1 THEN 0 ELSE DaysBeforeMonth(y, m - 1) + DaysInMonth(y, m - 1)

\* date.toordinal(): 1 for 0001-01-01
Ordinal(dt) ==
  LET y1 == dt.y - 1
  IN y1 * 365 + (y1 \div 4) - (y1 \div 100) + (y1 \div 400)
     + DaysBeforeMonth(dt.y, dt.m) + dt.d

\* date.weekday(): Monday is 0, Saturday 5, Sunday 6
Weekday(dt) == (Ordinal(dt) + 6) % 7

\* date.replace(year=y): the date, or NoDate where Python raises ValueError
\* ("day is out of range for month": 29 February in a year that is not leap)
ReplaceYear(dt, y) == IF ValidDate(y, dt.m, dt.d) THEN Date(y, dt.m, dt.d) ELSE NoDate

\* the fields of s between the occurrences of sep (at least one field)
RECURSIVE SplitOn(_, _)
SplitOn(s, sep) ==
  IF \A i \in 1..Len(s) : s[i] # sep THEN <<s>>
  ELSE LET k == CHOOSE i \in 1..Len(s) : s[i] = sep /\ \A j \in 1..(i - 1) : s[j] # sep
       IN <<SubSeq(s, 1, k - 1)>> \o SplitOn(SubSeq(s, k + 1, Len(s)), sep)

\* int() of a string of ASCII digits
RECURSIVE ToInt(_)
ToInt(s) == IF Len(s) = 0 THEN 0 ELSE 10 * ToInt(SubSeq(s, 1, Len(s) - 1)) + DigitVal(s[Len(s)])

AllAscii(s) == \A i \in 1..Len(s) : DigitVal(s[i]) >= 0

\* the characters of a natural number, left-padded with "0" to width w
RECURSIVE Digits(_, _)
Digits(n, w) ==
  IF n < 10 /\ w <= 1 THEN <<AsciiDigits[n + 1]>>
  ELSE Digits(n \div 10, w - 1) \o <<AsciiDigits[(n % 10) + 1]>>

\* Birthday.__init__: datetime.strptime(value, "%d.%m.%Y").date(), or NoDate
\* where it raises ValueError("Invalid date format. Use DD.MM.YYYY").
\* %d and %m take one or two digits (1..31, 1..12), %Y exactly four.
ParseBirthday(value) ==
  LET f == SplitOn(value, ".")
  IN IF /\ Len(f) = 3
        /\ Len(f[1]) \in {1, 2} /\ AllAscii(f[1]) /\ ToInt(f[1]) \in 1..31
        /\ Len(f[2]) \in {1, 2} /\ AllAscii(f[2]) /\ ToInt(f[2]) \in 1..12
        /\ Len(f[3]) = 4 /\ AllAscii(f[3])
        /\ ValidDate(ToInt(f[3]), ToInt(f[2]), ToInt(f[1]))
     THEN Date(ToInt(f[3]), ToInt(f[2]), ToInt(f[1]))
     ELSE NoDate
BirthdayError == Msg("Invalid date format. Use DD.MM.YYYY")

\* Birthday.__str__: strftime("%d.%m.%Y")
BirthdayStr(dt) == Digits(dt.d, 2) \o <<".">> \o Digits(dt.m, 2) \o <<".">> \o Digits(dt.y, 1)

----------------------------------------------------------------------------
(* Record: name, phones (in order, duplicates allowed), birthday (NoDate   *)
(* for None).  AddressBook: the Records in insertion order of their keys.  *)

\* Record.__init__ (after Name(name) succeeded)
Record(name) == [name |-> name, phones |-> <<>>, birthday |-> NoDate]

\* Record.add_phone inserting at the front of the list
add_phone_front(rec, phone) ==
  IF PhoneOk(phone) THEN [rec |-> [rec EXCEPT !.phones = <<phone>> \o @], ok |-> TRUE]
  ELSE [rec |-> rec, ok |-> FALSE]

\* Record.add_phone: rec after the call, ok = FALSE where Phone(phone) raises
add_phone(rec, phone) ==
  IF PhoneOk(phone) THEN [rec |-> [rec EXCEPT !.phones = Append(@, phone)], ok |-> TRUE]
  ELSE [rec |-> rec, ok |-> FALSE]

\* index of the first phone equal to phone, 0 if there is none
FirstIndex(phones, phone) ==
  IF \E i \in 1..Len(phones) : phones[i] = phone
  THEN CHOOSE i \in 1..Len(phones) : phones[i] = phone /\ \A j \in 1..(i - 1) : phones[j] # phone
  ELSE 0

\* Record.remove_phone
remove_phone(rec, phone) ==
  LET k == FirstIndex(rec.phones, phone)
  IN IF k = 0 THEN rec
     ELSE [rec EXCEPT !.phones = SubSeq(@, 1, k - 1) \o SubSeq(@, k + 1, Len(@))]

\* Record.edit_phone without the break: every phone equal to old_phone is replaced
edit_phone_all(rec, old_phone, new_phone) ==
  IF FirstIndex(rec.phones, old_phone) = 0 THEN [rec |-> rec, ok |-> TRUE]
  ELSE IF PhoneOk(new_phone)
  THEN [rec |-> [rec EXCEPT !.phones = [i \in 1..Len(@) |-> IF @[i] = old_phone THEN new_phone ELSE @[i]]],
        ok |-> TRUE]
  ELSE [rec |-> rec, ok |-> FALSE]

\* Record.edit_phone: Phone(new_phone) is constructed only once old_phone is
\* found; ok = FALSE where it raises
edit_phone(rec, old_phone, new_phone) ==
  LET k == FirstIndex(rec.phones, old_phone)
  IN IF k = 0 THEN [rec |-> rec, ok |-> TRUE]
     ELSE IF PhoneOk(new_phone) THEN [rec |-> [rec EXCEPT !.phones[k] = new_phone], ok |-> TRUE]
     ELSE [rec |-> rec, ok |-> FALSE]

\* Record.find_phone
find_phone(rec, phone) ==
  IF FirstIndex(rec.phones, phone) = 0 THEN Empty ELSE rec.phones[FirstIndex(rec.phones, phone)]

\* separator.join(items)
RECURSIVE Join(_, _)
Join(items, sep) ==
  IF Len(items) = 0 THEN <<>>
  ELSE IF Len(items) = 1 THEN items[1]
  ELSE items[1] \o sep \o Join(Tail(items), sep)

\* Record.__str__
RecordStr(rec) ==
  <<"Contact name: ">> \o rec.name \o <<", phones: ">> \o Join(rec.phones, <<";", " ">>)
  \o <<", birthday: ">> \o (IF rec.birthday # NoDate THEN BirthdayStr(rec.birthday) ELSE <<"Not set">>)

EmptyBook == <<>>

\* position of name's Record in the book, 0 if absent
IndexOf(b, name) ==
  IF \E i \in 1..Len(b) : b[i].name = name
  THEN CHOOSE i \in 1..Len(b) : b[i].name = name
  ELSE 0

\* AddressBook.find: the Record's position (0 for None)
find(b, name) == IndexOf(b, name)

Has(b, name) == IndexOf(b, name) # 0

\* AddressBook.add_record: data[record.name.value] = record
add_record(b, rec) ==
  IF Has(b, rec.name) THEN [b EXCEPT ![IndexOf(b, rec.name)] = rec] ELSE Append(b, rec)

\* AddressBook.delete
delete(b, name) ==
  LET k == IndexOf(b, name)
  IN IF k = 0 THEN b ELSE SubSeq(b, 1, k - 1) \o SubSeq(b, k + 1, Len(b))

----------------------------------------------------------------------------
(* Command handlers.  An element of an argument list is a str or, when the *)
(* handler is called from main(), a list of str.                           *)

Str(s) == [t |-> "str", v |-> s]
Lst(l) == [t |-> "list", v |-> l]
StrArgs(l) == [i \in 1..Len(l) |-> Str(l[i])]

Unhashable == Msg("unhashable type: 'list'")
NotFound == Msg("Contact not found.")
Insufficient == Msg("Insufficient arguments provided.")
Added == Msg("Contact added.")
Updated == Msg("Contact updated.")

\* str(ValueError) of a failed tuple unpacking
NotEnough(expected, got) ==
  <<"not enough values to unpack (expected ">> \o expected \o <<", got ">> \o Digits(got, 1) \o <<")">>
TooMany(expected) == <<"too many values to unpack (expected ">> \o expected \o <<")">>

\* input_error: the wrapper's translation of what the handler raised
input_error(o) ==
  IF o.exc = "KeyError" THEN Ret(o.book, NotFound)
  ELSE IF o.exc = "ValueError" THEN Ret(o.book, o.ret)
  ELSE IF o.exc = "IndexError" THEN Ret(o.book, Insufficient)
  ELSE o

\* body of add_contact
add_contact_body(args, b) ==
  IF Len(args) < 2 THEN Raise(b, "ValueError", NotEnough(<<"at least 2">>, Len(args)))
  ELSE LET name == args[1]
           phone == args[2]
       IN IF name.t # "str" THEN Raise(b, "TypeError", Unhashable)
          ELSE IF find(b, name.v) = 0 /\ ~NameOk(name.v) THEN Raise(b, "ValueError", NameError)
          ELSE LET b1 == IF find(b, name.v) = 0 THEN add_record(b, Record(name.v)) ELSE b
                   message == IF find(b, name.v) = 0 THEN Added ELSE Updated
                   i == IndexOf(b1, name.v)
               IN IF Len(phone.v) = 0 THEN Ret(b1, message)
                  ELSE IF phone.t # "str"
                  THEN Raise(b1, "AttributeError", Msg("'list' object has no attribute 'isdigit'"))
                  ELSE IF add_phone(b1[i], phone.v).ok
                  THEN Ret([b1 EXCEPT ![i] = add_phone(b1[i], phone.v).rec], message)
                  ELSE Raise(b1, "ValueError", PhoneError)

add_contact(args, b) == input_error(add_contact_body(args, b))

\* body of change_contact
change_contact_body(args, b) ==
  IF Len(args) < 3 THEN Raise(b, "ValueError", NotEnough(<<"3">>, Len(args)))
  ELSE IF Len(args) > 3 THEN Raise(b, "ValueError", TooMany(<<"3">>))
  ELSE LET name == args[1]
           old_phone == args[2]
           new_phone == args[3]
           i == find(b, name.v)
       IN IF name.t # "str" THEN Raise(b, "TypeError", Unhashable)
          ELSE IF i = 0 THEN Ret(b, NotFound)
          ELSE IF old_phone.t # "str" THEN Ret(b, Updated)
          ELSE IF FirstIndex(b[i].phones, old_phone.v) # 0 /\ new_phone.t # "str"
          THEN Raise(b, "AttributeError", Msg("'list' object has no attribute 'isdigit'"))
          ELSE IF edit_phone(b[i], old_phone.v, new_phone.v).ok
          THEN Ret([b EXCEPT ![i] = edit_phone(b[i], old_phone.v, new_phone.v).rec], Updated)
          ELSE Raise(b, "ValueError", PhoneError)

change_contact(args, b) == input_error(change_contact_body(args, b))

\* body of show_phone
show_phone_body(args, b) ==
  IF Len(args) = 0 THEN Raise(b, "IndexError", Msg("list index out of range"))
  ELSE LET name == args[1]
           i == find(b, name.v)
       IN IF name.t # "str" THEN Raise(b, "TypeError", Unhashable)
          ELSE IF i = 0 THEN Ret(b, NotFound)
          ELSE IF Len(b[i].phones) > 0 THEN Ret(b, Join(b[i].phones, <<";", " ">>))
          ELSE Ret(b, Msg("No phone numbers found."))

show_phone(args, b) == input_error(show_phone_body(args, b))

\* show_all
show_all(b) ==
  IF Len(b) = 0 THEN Ret(b, Msg("No contacts available."))
  ELSE Ret(b, Join([i \in 1..Len(b) |-> RecordStr(b[i])], <<"\n">>))

\* body of add_birthday
add_birthday_body(args, b) ==
  IF Len(args) < 2 THEN Raise(b, "ValueError", NotEnough(<<"2">>, Len(args)))
  ELSE IF Len(args) > 2 THEN Raise(b, "ValueError", TooMany(<<"2">>))
  ELSE LET name == args[1]
           birthday_str == args[2]
           i == find(b, name.v)
       IN IF name.t # "str" THEN Raise(b, "TypeError", Unhashable)
          ELSE IF i = 0 THEN Ret(b, NotFound)
          ELSE IF birthday_str.t # "str"
          THEN Raise(b, "TypeError", Msg("strptime() argument 1 must be str, not list"))
          ELSE IF ParseBirthday(birthday_str.v) = NoDate THEN Raise(b, "ValueError", BirthdayError)
          ELSE Ret([b EXCEPT ![i].birthday = ParseBirthday(birthday_str.v)], Msg("Birthday added."))

add_birthday(args, b) == input_error(add_birthday_body(args, b))

\* body of show_birthday
show_birthday_body(args, b) ==
  IF Len(args) = 0 THEN Raise(b, "IndexError", Msg("list index out of range"))
  ELSE LET name == args[1]
           i == find(b, name.v)
       IN IF name.t # "str" THEN Raise(b, "TypeError", Unhashable)
          ELSE IF i = 0 THEN Ret(b, NotFound)
          ELSE IF b[i].birthday # NoDate THEN Ret(b, BirthdayStr(b[i].birthday))
          ELSE Ret(b, Msg("Birthday not set."))

show_birthday(args, b) == input_error(show_birthday_body(args, b))

----------------------------------------------------------------------------
(* Upcoming birthdays.                                                     *)

\* bday of get_upcoming_birthdays before the weekend shift: the birthday in
\* today's year, or in the next year when that is before today; NoDate where
\* date.replace raises ValueError
NextOccurrence(birthday, today) ==
  IF ReplaceYear(birthday, today.y) = NoDate THEN NoDate
  ELSE IF Ordinal(ReplaceYear(birthday, today.y)) < Ordinal(today)
  THEN ReplaceYear(ReplaceYear(birthday, today.y), today.y + 1)
  ELSE ReplaceYear(birthday, today.y)

\* delta = (bday - today).days, taken before the weekend shift
Delta(birthday, today) == Ordinal(NextOccurrence(birthday, today)) - Ordinal(today)

\* ordinal of bday after the weekend shift (assigned, never read again)
GreetingOrdinal(birthday, today) ==
  LET bday == NextOccurrence(birthday, today)
  IN IF Weekday(bday) = 5 THEN Ordinal(bday) + 2
     ELSE IF Weekday(bday) = 6 THEN Ordinal(bday) + 1
     ELSE Ordinal(bday)

\* the test that appends the record to upcoming
InWindow(birthday, today) == 0 <= Delta(birthday, today) /\ Delta(birthday, today) <= 7

\* AddressBook.get_upcoming_birthdays: the Records it returns, or the
\* ValueError that date.replace raises on the way
get_upcoming_birthdays(b, today) ==
  IF \E i \in 1..Len(b) : b[i].birthday # NoDate /\ NextOccurrence(b[i].birthday, today) = NoDate
  THEN [recs |-> <<>>, exc |-> "ValueError"]
  ELSE [recs |-> SelectSeq(b, LAMBDA r : r.birthday # NoDate /\ InWindow(r.birthday, today)),
        exc |-> NoExc]

\* birthdays (not wrapped by input_error)
birthdays(args, b, today) ==
  LET upcoming == get_upcoming_birthdays(b, today)
  IN IF upcoming.exc # NoExc THEN Raise(b, upcoming.exc, Msg("day is out of range for month"))
     ELSE IF Len(upcoming.recs) = 0 THEN Ret(b, Msg("No upcoming birthdays."))
     ELSE Ret(b, Join([i \in 1..Len(upcoming.recs) |->
                         upcoming.recs[i].name \o <<":", " ">> \o BirthdayStr(upcoming.recs[i].birthday)],
                      <<"\n">>))

----------------------------------------------------------------------------
(* Persistence: pickle writes each Record as a tuple, load rebuilds it.    *)

NoFile == [exists |-> FALSE, data |-> <<>>]

\* pickle.dump(book, f)
Dump(b) == [i \in 1..Len(b) |-> <<b[i].name, b[i].phones, b[i].birthday>>]

\* pickle.load(f)
Load(data) == [i \in 1..Len(data) |-> [name |-> data[i][1], phones |-> data[i][2], birthday |-> data[i][3]]]

\* save_data: the file after the call
save_data(b) == [exists |-> TRUE, data |-> Dump(b)]

\* load_data that never reads the file
load_data_fresh(f) == EmptyBook

\* load_data: the book it returns
load_data(f) == IF f.exists THEN Load(f.data) ELSE EmptyBook

----------------------------------------------------------------------------
(* parse_input.                                                            *)

UpperLetters == <<"A", "B", "C", "D", "E", "F", "G", "H", "I", "J", "K", "L", "M",
                  "N", "O", "P", "Q", "R", "S", "T", "U", "V", "W", "X", "Y", "Z">>
LowerLetters == <<"a", "b", "c", "d", "e", "f", "g", "h", "i", "j", "k", "l", "m",
                  "n", "o", "p", "q", "r", "s", "t", "u", "v", "w", "x", "y", "z">>

\* str.lower()
LowerChar(c) ==
  IF \E i \in 1..Len(UpperLetters) : UpperLetters[i] = c
  THEN LowerLetters[CHOOSE i \in 1..Len(UpperLetters) : UpperLetters[i] = c]
  ELSE c
lower(s) == [i \in 1..Len(s) |-> LowerChar(s[i])]

IsSpace(c) == c \in {" ", "\t"}

\* str.split(): the maximal runs of non-whitespace characters
RECURSIVE split(_)
split(s) ==
  IF Len(s) = 0 THEN <<>>
  ELSE IF IsSpace(s[1]) THEN split(Tail(s))
  ELSE IF \A i \in 1..Len(s) : ~IsSpace(s[i]) THEN <<s>>
  ELSE LET k == CHOOSE i \in 1..Len(s) : IsSpace(s[i]) /\ \A j \in 1..(i - 1) : ~IsSpace(s[j])
       IN <<SubSeq(s, 1, k - 1)>> \o split(SubSeq(s, k + 1, Len(s)))

\* parse_input: (command, args)
parse_input(user_input) ==
  LET parts == split(user_input)
  IN IF Len(parts) = 0 THEN [command |-> Empty, args |-> <<>>]
     ELSE [command |-> lower(parts[1]), args |-> Tail(parts)]

----------------------------------------------------------------------------
(* main(): the dispatch of one input line.                                 *)

CmdClose == <<"c", "l", "o", "s", "e">>
CmdExit == <<"e", "x", "i", "t">>
CmdHello == <<"h", "e", "l", "l", "o">>
CmdAdd == <<"a", "d", "d">>
CmdChange == <<"c", "h", "a", "n", "g", "e">>
CmdPhone == <<"p", "h", "o", "n", "e">>
CmdAll == <<"a", "l", "l">>
CmdAddBirthday == <<"a", "d", "d", "-", "b", "i", "r", "t", "h", "d", "a", "y">>
CmdShowBirthday == <<"s", "h", "o", "w", "-", "b", "i", "r", "t", "h", "d", "a", "y">>
CmdBirthdays == <<"b", "i", "r", "t", "h", "d", "a", "y", "s">>

\* "command, *args = parse_input(user_input)": parse_input returns the pair
\* (command, args), so the starred target takes the one remaining element
\* of the pair, the argument list itself
Unpack(parsed) == [command |-> parsed.command, args |-> <<Lst(parsed.args)>>]

IsExit(user_input) == Unpack(parse_input(user_input)).command \in {CmdClose, CmdExit}

\* the elif chain of main for a command other than close and exit
dispatch(command, args, b, today) ==
  IF command = CmdHello THEN Ret(b, Msg("How can I help you?"))
  ELSE IF command = CmdAdd THEN add_contact(args, b)
  ELSE IF command = CmdChange THEN change_contact(args, b)
  ELSE IF command = CmdPhone THEN show_phone(args, b)
  ELSE IF command = CmdAll THEN show_all(b)
  ELSE IF command = CmdAddBirthday THEN add_birthday(args, b)
  ELSE IF command = CmdShowBirthday THEN show_birthday(args, b)
  ELSE IF command = CmdBirthdays THEN birthdays(args, b, today)
  ELSE Ret(b, Msg("Invalid command."))

----------------------------------------------------------------------------
(* Inputs.                                                                 *)

AddArgs ==
  {<<>>, <<Al>>, <<Empty, P1>>, <<Al, P1, P2>>, <<Bo, PArabic>>, <<Bo, PAlpha>>}
  \cup {<<Al, p>> : p \in {P1, P2, PShort, Empty}}

ChangeArgs ==
  {<<>>, <<Al, P1>>, <<Al, P1, P2, P1>>, <<Empty, P1, P2>>, <<Bo, PArabic, PAlpha>>, <<Bo, P1, PAlpha>>}
  \cup {<<Al, o, n>> : o \in {P1, P2}, n \in {P1, P2, PShort}}

NameArgs == {<<>>, <<Al>>, <<Bo>>, <<Al, Bo>>}

BirthdayArgs ==
  {<<>>, <<Al>>, <<Al, D2000, D2000>>, <<Bo, D2000>>, <<Bo, D2023>>}
  \cup {<<Al, d>> : d \in {D2000, D2024, D2023, DBad}}

\* values of date.today()
Todays ==
  { Date(2026, 1, 1), Date(2026, 1, 2), Date(2025, 12, 29), Date(2025, 12, 25),
    Date(2025, 12, 24), Date(2025, 12, 22), Date(2027, 12, 26), Date(2027, 12, 28),
    Date(2022, 12, 26), Date(2024, 2, 26), Date(2024, 2, 29), Date(2024, 3, 1), Date(2028, 2, 21) }

Sp == <<" ">>
Line(words) == Join(words, Sp)

\* lines typed at the prompt
Lines ==
  { Line(<<CmdAdd, Al, P1>>), Line(<<<<"A", "D", "D">>, Bo, P2>>),
    Sp \o Sp \o CmdAdd \o Sp \o <<"\t">> \o Al \o Sp \o Sp \o P2 \o Sp,
    Line(<<CmdAdd>>), Line(<<CmdAdd, Al>>), Line(<<CmdAdd, Al, PShort>>),
    Line(<<CmdChange, Al, P1, P2>>), Line(<<CmdChange>>),
    Line(<<CmdPhone, Al>>), Line(<<CmdPhone, Bo>>), Line(<<CmdPhone>>),
    Line(<<CmdAll>>), Line(<<CmdAll, Al>>),
    Line(<<CmdAddBirthday, Al, D2000>>), Line(<<CmdAddBirthday>>),
    Line(<<CmdShowBirthday, Al>>), Line(<<CmdShowBirthday>>),
    Line(<<CmdBirthdays>>), Line(<<CmdHello>>), Line(<<<<"H", "e", "l", "l", "o">>, Al>>),
    Line(<<CmdClose>>), Line(<<CmdExit>>), Line(<<<<"E", "x", "i", "t">>, Al>>),
    Empty, Sp \o Sp, Line(<<Al>>), Line(<<<<"a", "d", "d", "s">>, Al, P1>>) }

----------------------------------------------------------------------------
(* The state machine.                                                      *)
(*   pc = "api":      the module is imported and its functions are called *)
(*                    on a book (as its documented examples do);          *)
(*   pc = "returned": such a call has returned or raised;                 *)
(*   pc = "saved":    that session has written the book with save_data;   *)
(*   pc = "loop":     main() is at its prompt;                            *)
(*   pc = "printed":  main() has printed a handler's result;              *)
(*   pc = "done":     main() has returned after close or exit;            *)
(*   pc = "crashed":  an exception has left main().                       *)
(* result, raised, last and prev describe the latest call: what it         *)
(* returned or printed, the exception that left it, its inputs and the     *)
(* book before it.                                                         *)

VARIABLES book, file, pc, result, raised, last, prev

vars == <<book, file, pc, result, raised, last, prev>>

Op(op, args, line, today) == [op |-> op, args |-> args, line |-> line, today |-> today]

NoOp == Op("", <<>>, Empty, NoDate)

Init ==
  /\ book = EmptyBook
  /\ file = NoFile
  /\ pc = "api"
  /\ result = <<>>
  /\ raised = NoExc
  /\ last = NoOp
  /\ prev = EmptyBook

\* the model's cap on the phone lists
WithinBounds(b) == \A i \in 1..Len(b) : Len(b[i].phones) <= MaxPhones

\* a direct call of a handler: its outcome becomes the state
Called(op, args, today, o) ==
  /\ pc = "api"
  /\ WithinBounds(o.book)
  /\ book' = o.book
  /\ result' = o.ret
  /\ raised' = o.exc
  /\ last' = Op(op, args, Empty, today)
  /\ prev' = book
  /\ pc' = "returned"
  /\ UNCHANGED file

CallAddContact == \E a \in AddArgs : Called("add", a, NoDate, add_contact(StrArgs(a), book))

CallChangeContact == \E a \in ChangeArgs : Called("change", a, NoDate, change_contact(StrArgs(a), book))

CallShowPhone == \E a \in NameArgs : Called("phone", a, NoDate, show_phone(StrArgs(a), book))

CallShowAll == Called("all", <<>>, NoDate, show_all(book))

CallAddBirthday == \E a \in BirthdayArgs : Called("add-birthday", a, NoDate, add_birthday(StrArgs(a), book))

CallShowBirthday == \E a \in NameArgs : Called("show-birthday", a, NoDate, show_birthday(StrArgs(a), book))

CallBirthdays == \E t \in Todays : Called("birthdays", <<>>, t, birthdays(<<>>, book, t))

\* the caller goes on to its next call, the loop to its next prompt
Resume ==
  /\ pc \in {"returned", "printed"}
  /\ pc' = IF pc = "returned" THEN "api" ELSE "loop"
  /\ result' = <<>>
  /\ raised' = NoExc
  /\ last' = NoOp
  /\ prev' = book
  /\ UNCHANGED <<book, file>>

\* save_data(book) at the end of the session
CallSaveData ==
  /\ pc = "api"
  /\ file' = save_data(book)
  /\ pc' = "saved"
  /\ result' = <<>>
  /\ raised' = NoExc
  /\ last' = Op("save", <<>>, Empty, NoDate)
  /\ prev' = book
  /\ UNCHANGED book

\* main() starts: book = load_data(), the welcome line
MainStart ==
  /\ pc \in {"api", "saved", "done", "crashed"}
  /\ book' = load_data(file)
  /\ pc' = "loop"
  /\ result' = Msg("Welcome to the assistant bot!")
  /\ raised' = NoExc
  /\ last' = Op("main", <<>>, Empty, NoDate)
  /\ prev' = book
  /\ UNCHANGED file

\* one iteration of the loop on close or exit
MainExit ==
  \E line \in Lines :
    /\ pc = "loop"
    /\ IsExit(line)
    /\ file' = save_data(book)
    /\ pc' = "done"
    /\ result' = Msg("Good bye!")
    /\ raised' = NoExc
    /\ last' = Op("line", <<>>, line, NoDate)
    /\ prev' = book
    /\ UNCHANGED book

\* one iteration of the loop on any other line; date.today() is read by the
\* birthdays command only
MainCommand ==
  \E line \in Lines :
    LET c == Unpack(parse_input(line))
    IN \E today \in (IF c.command = CmdBirthdays THEN Todays ELSE {NoDate}) :
         LET o == dispatch(c.command, c.args, book, today)
         IN /\ pc = "loop"
            /\ ~IsExit(line)
            /\ WithinBounds(o.book)
            /\ book' = o.book
            /\ result' = o.ret
            /\ raised' = o.exc
            /\ pc' = IF o.exc = NoExc THEN "printed" ELSE "crashed"
            /\ last' = Op("line", <<>>, line, today)
            /\ prev' = book
            /\ UNCHANGED file

Next ==
  \/ CallAddContact
  \/ CallChangeContact
  \/ CallShowPhone
  \/ CallShowAll
  \/ CallAddBirthday
  \/ CallShowBirthday
  \/ CallBirthdays
  \/ Resume
  \/ CallSaveData
  \/ MainStart
  \/ MainExit
  \/ MainCommand

Spec == Init /\ [][Next]_vars
----------------------------------------------------------------------------
(* Properties.                                                             *)

\* the latest step was a direct call of the handler op
Returned(op) == pc = "returned" /\ last.op = op

\* the latest step was main()'s handling of a line whose command is cmd
Typed(cmd) == pc \in {"printed", "crashed", "done"} /\ last.op = "line"
              /\ parse_input(last.line).command = cmd

PhonesOf(b, name) == IF Has(b, name) THEN b[IndexOf(b, name)].phones ELSE <<>>

Occurrences(phones, phone) == Cardinality({i \in 1..Len(phones) : phones[i] = phone})

\* C1: a line `add N P` with N absent from the book and P a valid phone
\* leaves a Record N with the phone list [P] and prints "Contact added.";
\* a line `phone N` for a Record with one phone prints that phone.
C1_AddLineAddsContact ==
  /\ (/\ Typed(CmdAdd)
      /\ Len(parse_input(last.line).args) = 2
      /\ NameOk(parse_input(last.line).args[1])
      /\ PhoneOk(parse_input(last.line).args[2])
      /\ ~Has(prev, parse_input(last.line).args[1]))
     => (/\ result = Added
         /\ raised = NoExc
         /\ PhonesOf(book, parse_input(last.line).args[1]) = <<parse_input(last.line).args[2]>>
         /\ Has(book, parse_input(last.line).args[1]))
  /\ (/\ Typed(CmdPhone)
      /\ Len(parse_input(last.line).args) = 1
      /\ Len(PhonesOf(prev, parse_input(last.line).args[1])) = 1)
     => (/\ raised = NoExc
         /\ result = PhonesOf(prev, parse_input(last.line).args[1])[1])

\* C2: no input line makes the command loop end with an exception; the
\* loop is left by close or exit only.
C2_LoopNeverCrashes ==
  /\ pc # "crashed"
  /\ (pc = "done" => IsExit(last.line))
  /\ (last.op = "line" => raised = NoExc)

\* the argument count the handler op does not accept
MalformedCount(op, n) ==
  \/ op = "add" /\ n < 2
  \/ op = "change" /\ n # 3
  \/ op = "add-birthday" /\ n # 2
  \/ op \in {"phone", "show-birthday"} /\ n = 0

\* C3: a handler called with a malformed argument count returns
\* "Insufficient arguments provided." and leaves the book unchanged.
C3_ArgCountMessage ==
  (pc = "returned" /\ MalformedCount(last.op, Len(last.args)))
  => (result = Insufficient /\ raised = NoExc /\ book = prev)

\* the case of C4: add_contact([name, phone], book), valid name and phone
C4_Case ==
  /\ Returned("add")
  /\ Len(last.args) = 2
  /\ NameOk(last.args[1])
  /\ PhoneOk(last.args[2])

\* C4: add_contact([name, phone], book) with a valid phone creates the
\* Record ("Contact added.") or reuses it ("Contact updated."), appends phone
\* at the end of its phone list and changes nothing else in the book.
C4_AddAppends ==
  C4_Case =>
    /\ raised = NoExc
    /\ result = (IF Has(prev, last.args[1]) THEN Updated ELSE Added)
    /\ book = (IF Has(prev, last.args[1])
               THEN [prev EXCEPT ![IndexOf(prev, last.args[1])].phones = Append(@, last.args[2])]
               ELSE Append(prev, [name |-> last.args[1], phones |-> <<last.args[2]>>,
                                  birthday |-> NoDate]))

\* a second phone was added to a Record that has a birthday, next to another Record
C4_Witness ==
  /\ C4_Case
  /\ result = Updated
  /\ Len(book) = 2
  /\ Len(PhonesOf(prev, last.args[1])) = 1
  /\ Len(PhonesOf(book, last.args[1])) = 2
  /\ book[IndexOf(book, last.args[1])].birthday # NoDate

C6_Case ==
  /\ Returned("change")
  /\ Len(last.args) = 3
  /\ Has(prev, last.args[1])
  /\ FirstIndex(PhonesOf(prev, last.args[1]), last.args[2]) # 0
  /\ PhoneOk(last.args[3])
  /\ last.args[3] # last.args[2]

\* the first phone equal to old is replaced at its position, nothing else changes
C6_ReplacedInPlace ==
  /\ result = Updated
  /\ raised = NoExc
  /\ book = [prev EXCEPT ![IndexOf(prev, last.args[1])].phones[
                             FirstIndex(PhonesOf(prev, last.args[1]), last.args[2])] = last.args[3]]

\* C6 as stated: after the replacement find_phone(old) returns the empty string.
C6_OldGoneAfterChange ==
  C6_Case =>
    /\ C6_ReplacedInPlace
    /\ find_phone(book[IndexOf(book, last.args[1])], last.args[2]) = Empty

\* C6 amended: the first phone equal to old is replaced in place, and
\* find_phone(old) returns the empty string exactly when old occurred once
\* in the list; with a further occurrence of old it still returns old.
C6_OldGoneUnlessDuplicate ==
  C6_Case =>
    /\ C6_ReplacedInPlace
    /\ find_phone(book[IndexOf(book, last.args[1])], last.args[2])
         = (IF Occurrences(PhonesOf(prev, last.args[1]), last.args[2]) = 1
            THEN Empty ELSE last.args[2])

\* the second of two different phones was replaced
C6_Witness ==
  /\ C6_Case
  /\ Len(PhonesOf(prev, last.args[1])) = 2
  /\ FirstIndex(PhonesOf(prev, last.args[1]), last.args[2]) = 2
  /\ find_phone(book[IndexOf(book, last.args[1])], last.args[2]) = Empty
NextDay(dt) ==
  IF dt.d < DaysInMonth(dt.y, dt.m) THEN Date(dt.y, dt.m, dt.d + 1)
  ELSE IF dt.m < 12 THEN Date(dt.y, dt.m + 1, 1)
  ELSE Date(dt.y + 1, 1, 1)

RECURSIVE PlusDays(_, _)
PlusDays(dt, n) == IF n = 0 THEN dt ELSE PlusDays(NextDay(dt), n - 1)

\* the birthday's day and month fall on one of the days today .. today + 7
OccursWithinWeek(birthday, today) ==
  \E n \in 0..7 : PlusDays(today, n).m = birthday.m /\ PlusDays(today, n).d = birthday.d

\* C7: get_upcoming_birthdays returns exactly the Records with a birthday
\* whose next occurrence is 0 to 7 days after today, in the book's order.
C7_UpcomingWithinWeek ==
  Returned("birthdays") =>
    /\ raised = NoExc
    /\ get_upcoming_birthdays(prev, last.today)
         = [recs |-> SelectSeq(prev, LAMBDA r : r.birthday # NoDate
                                               /\ OccursWithinWeek(r.birthday, last.today)),
            exc |-> NoExc]

\* C8: main() starts with the content of the file, or with an empty book
\* when there is no file; close and exit write the whole book to the file and
\* no other line writes it; the next run starts with the book the previous
\* run held at close or exit.
C8_Persistence ==
  [][ /\ (pc' = "loop" /\ last'.op = "main")
         => /\ (~file.exists => book' = EmptyBook)
            /\ (file.exists => Dump(book') = file.data)
            /\ (pc \in {"done", "saved"} => book' = book)
      /\ (pc = "loop" /\ pc' = "done")
         => /\ IsExit(last'.line)
            /\ file'.exists
            /\ Load(file'.data) = book
      /\ (pc \in {"loop", "printed"} /\ pc' # "done") => file' = file
    ]_vars

\* a run started from a file that holds two Records, one with a birthday
C8_Witness ==
  /\ pc = "loop"
  /\ last.op = "main"
  /\ file.exists
  /\ Len(book) = 2
  /\ book[1].birthday # NoDate
  /\ Len(book[1].phones) > 0
  /\ prev = book

\* C9: change_contact([name, old, new], book) for an existing contact and
\* an invalid new phone returns the validator's message and leaves the book
\* unchanged, whether old is in the phone list or not.
C9_InvalidNewPhoneFails ==
  (/\ Returned("change")
   /\ Len(last.args) = 3
   /\ Has(prev, last.args[1])
   /\ ~PhoneOk(last.args[3]))
  => (result = PhoneError /\ book = prev)

\* C10: when add_contact returns anything other than "Contact added." or
\* "Contact updated.", the book is as it was before the call.
C10_ErrorLeavesBookUnchanged ==
  (Returned("add") /\ result \notin {Added, Updated}) => book = prev
====
